---- MODULE Spec2Model ----
(***************************************************************************)
(* Froggi: the FML parser (library/src/markup/parse.rs) over the token     *)
(* stream of the scanner, with the error type of library/src/lib.rs; the   *)
(* byte codec of lib.rs; the framing of responses and requests;            *)
(* send_request (lib.rs) and the server (server/src/main.rs); the context  *)
(* messages of an error (AddMsg, lib.rs).                                  *)
(*                                                                         *)
(* The source text is a sequence of lexemes; the scanner turns the i-th    *)
(* lexeme into the i-th token or into a scan error, and yields End tokens  *)
(* past the input.  The state machine Spec runs parse(): one action per    *)
(* branch of its top-level loop, each action doing the whole               *)
(* parse_page_styles or parse_item call of that branch.                    *)
(*                                                                         *)
(* Each part of the program has its own variables and its own              *)
(* specification; a specification leaves the variables of the other parts  *)
(* at rest.                                                                *)
(***************************************************************************)
EXTENDS Integers, Sequences, FiniteSets, TLC

VARIABLES
    src,         \* the source text, as its sequence of lexemes
    layout,      \* how the lexemes are spread over lines
    pos,         \* scanner: 1 + the number of scan results handed out
    errors,      \* parse: let mut errors
    items,       \* parse: let mut items
    page_styles, \* parse: let mut page_styles
    pc,          \* "loop" while parse runs its loop, "done" once it returned
    result,      \* the value parse returned
    recorded,    \* history: every diagnostic produced during the run, in order
    malformed,   \* history: top-level loop iterations that met a malformed item
    blocks,      \* history: page-style blocks parsed successfully
    last         \* history: what the last loop iteration did

VARIABLES
    number,      \* codec: the usize handed to an encoder
    encoded,     \* codec: the encoder called and what it returned
    decoded      \* codec: the decoder called on that and what it returned

VARIABLES
    response,    \* framing: the Response built by Response::new
    wire,        \* framing: the bytes into_bytes made of it
    received     \* framing: what Response::from_bytes made of those bytes

VARIABLES
    client,      \* network: per connection, the peer that opened it
    c2s,         \* network: per connection, the bytes the client wrote; closed or not
    s2c,         \* network: per connection, the bytes the server wrote; closed or not
    handler      \* network: per connection, the thread running handle_client

VARIABLES
    froggi_error, \* context: the FroggiError that msg is called on
    origin,       \* history: that error as it was created
    msgs          \* history: the messages msg was called with, in order

parse_vars == <<src, layout, pos, errors, items, page_styles, pc, result,
                recorded, malformed, blocks, last>>

codec_vars == <<number, encoded, decoded>>

frame_vars == <<response, wire, received>>

net_vars == <<client, c2s, s2c, handler>>

msg_vars == <<froggi_error, origin, msgs>>

vars == <<parse_vars, codec_vars, frame_vars, net_vars, msg_vars>>

\* the parts at rest
NotCalled == [fn |-> "none"]

NoParse ==
    /\ src = <<>> /\ layout = "one_line" /\ pos = 1
    /\ errors = <<>> /\ items = <<>> /\ page_styles = <<>>
    /\ pc = "off" /\ result = [pending |-> TRUE]
    /\ recorded = <<>> /\ malformed = 0 /\ blocks = 0
    /\ last = [op |-> "off"]

NoCodec ==
    /\ number = [i \in 1..8 |-> 0]
    /\ encoded = NotCalled
    /\ decoded = NotCalled

NoFrame ==
    /\ response = NotCalled
    /\ wire = NotCalled
    /\ received = NotCalled

NoNet ==
    /\ client = <<>> /\ c2s = <<>> /\ s2c = <<>> /\ handler = <<>>

\* what each specification leaves at rest
NoMsg == froggi_error = NotCalled /\ origin = NotCalled /\ msgs = <<>>

beside_parse == <<codec_vars, frame_vars, net_vars, msg_vars>>
BesideParseAtRest == NoCodec /\ NoFrame /\ NoNet /\ NoMsg

beside_codec == <<parse_vars, frame_vars, net_vars, msg_vars>>
BesideCodecAtRest == NoParse /\ NoFrame /\ NoNet /\ NoMsg

beside_frame == <<parse_vars, codec_vars, net_vars, msg_vars>>
BesideFrameAtRest == NoParse /\ NoCodec /\ NoNet /\ NoMsg

beside_net == <<parse_vars, codec_vars, frame_vars, msg_vars>>
BesideNetAtRest == NoParse /\ NoCodec /\ NoFrame /\ NoMsg

beside_msg == <<parse_vars, codec_vars, frame_vars, net_vars>>
BesideMsgAtRest == NoParse /\ NoCodec /\ NoFrame /\ NoNet

----------------------------------------------------------------------------
(* Bounds of the model.                                                    *)

\* longest source text built from arbitrary lexemes
MaxLen == 3

\* most items of a response
MaxItems == 2

\* connections opened to the server
MaxConn == 2

\* calls of msg on one error
MaxMsgs == 3

----------------------------------------------------------------------------
(* Scanner (markup/scan.rs), after section 4.3 of the specification.       *)

StringLexemes == {"\"s\"", "\"30300\""}

\* a string literal holding an unknown escape code
BadLexemes == {"\"\\q\""}

IdentifierLexemes == {"serif", "user-style", "fg"}

KindOf(lexeme) ==
    CASE lexeme = "(" -> "LeftParen"
      [] lexeme = ")" -> "RightParen"
      [] lexeme = "{" -> "LeftBrace"
      [] lexeme = "}" -> "RightBrace"
      [] lexeme = "^" -> "Link"
      [] lexeme = "&" -> "Blob"
      [] lexeme = "#" -> "Anchor"
      [] lexeme = "*" -> "Text"
      [] lexeme = "|" -> "VBox"
      [] lexeme = "%" -> "Inline"
      [] lexeme = "$" -> "Box"
      [] lexeme \in StringLexemes -> "String"
      [] OTHER -> "Identifier"

Token(kind, line, lexeme) == [kind |-> kind, line |-> line, lexeme |-> lexeme]

\* the line the i-th lexeme stands on; End stands on the last line
LineOf(i) ==
    IF layout = "one_line" \/ Len(src) = 0 THEN 1
    ELSE IF i > Len(src) THEN Len(src) ELSE i

\* the i-th token of the source; End past the input
TokenAt(i) ==
    IF i > Len(src) THEN Token("End", LineOf(i), "")
    ELSE Token(KindOf(src[i]), LineOf(i), src[i])

ScanFails(i) == i <= Len(src) /\ src[i] \in BadLexemes

----------------------------------------------------------------------------
(* Errors (lib.rs).                                                        *)

None == [is_some |-> FALSE, text |-> ""]
Some(text) == [is_some |-> TRUE, text |-> text]

\* FroggiError::scan
scan(error, line) ==
    [error |-> [kind |-> "ScanError", error |-> error, line |-> line], msg |-> None]

\* FroggiError::parse
parse_error(error, line) ==
    [error |-> [kind |-> "ParseError", error |-> error, line |-> line], msg |-> None]

UnexpectedToken(expected, got) ==
    [type |-> "UnexpectedToken", expected |-> expected, got |-> got]
ExpectedStyle(got) == [type |-> "ExpectedStyle", got |-> got]
ExpectedItem(got) == [type |-> "ExpectedItem", got |-> got]
UnknownEscapeCode(code) == [type |-> "UnknownEscapeCode", code |-> code]

\* msg keeping only the message of the last call
msg_replacing(self, m) == [self EXCEPT !.msg = Some(m)]

\* AddMsg for FroggiError: the first call sets the context, later calls append
msg(self, m) ==
    IF self.msg.is_some
    THEN [self EXCEPT !.msg = Some(self.msg.text \o ", " \o m)]
    ELSE [self EXCEPT !.msg = Some(m)]

\* Result<T, FroggiError> together with the scanner position after the call
Ok(val, p) == [ok |-> TRUE, val |-> val, pos |-> p]
Err(err, p) == [ok |-> FALSE, err |-> err, pos |-> p]

\* AddMsg for Result<T, FroggiError>
msg_str(r, m) == IF r.ok THEN r ELSE Err(msg(r.err, m), r.pos)

----------------------------------------------------------------------------
(* Scanner operations.  A scan error is handed out once: the scanner has   *)
(* moved past the offending text and the next call scans what follows.     *)

peek_token(p) ==
    IF ScanFails(p)
    THEN Err(scan(UnknownEscapeCode("q"), LineOf(p)), p + 1)
    ELSE Ok(TokenAt(p), p)

next_token(p) ==
    IF ScanFails(p)
    THEN Err(scan(UnknownEscapeCode("q"), LineOf(p)), p + 1)
    ELSE Ok(TokenAt(p), p + 1)

----------------------------------------------------------------------------
(* Abstract syntax built by the parser.                                    *)

WithoutArg(name) == [type |-> "WithoutArg", name |-> name]
WithArg(name, arg) == [type |-> "WithArg", name |-> name, arg |-> arg]
PageStyle(selector, styles) == [selector |-> selector, styles |-> styles]
PageItem(builtin, inline_styles, payload) ==
    [builtin |-> builtin, inline_styles |-> inline_styles, payload |-> payload]
Page(styles, its) == [page_styles |-> styles, items |-> its]

----------------------------------------------------------------------------
(* Parser (markup/parse.rs).  Every operator takes the scanner position it *)
(* is called at and returns Ok or Err with the position it leaves.         *)

\* the ? operator: an Err is returned as it is, an Ok is handed on; the
\* result r is computed once
Try(r, Continue(_)) ==
    CHOOSE out \in {IF res.ok THEN Continue(res) ELSE res : res \in {r}} : TRUE

\* how one pass through the body of a while loop ends, when it does not
\* return an error: the condition was false and the loop is left, or the
\* body ran and the loop goes round again
Break(val, p) == [ok |-> TRUE, val |-> val, pos |-> p, again |-> FALSE]
Again(val, p) == [ok |-> TRUE, val |-> val, pos |-> p, again |-> TRUE]

\* consume reporting the kind it got as the kind it expected
consume_swapped(p, kind) ==
    Try(next_token(p), LAMBDA token :
        IF token.val.kind = kind THEN token
        ELSE Err(parse_error(UnexpectedToken(token.val.kind, token.val.lexeme),
                             token.val.line),
                 token.pos))

consume(p, kind) ==
    Try(next_token(p), LAMBDA token :
        IF token.val.kind = kind THEN token
        ELSE Err(parse_error(UnexpectedToken(kind, token.val.lexeme), token.val.line),
                 token.pos))

\* consume_selector taking Inline for a selector as well
consume_selector_inline(p) ==
    Try(next_token(p), LAMBDA token :
        IF token.val.kind \in {"Identifier", "Link", "Box", "VBox", "Text", "Inline"}
        THEN token
        ELSE msg_str(Err(parse_error(UnexpectedToken("Identifier", token.val.lexeme),
                                     token.val.line), token.pos),
                     "selectors must be either built-in items or links, or user-defined selectors"))

consume_selector(p) ==
    Try(next_token(p), LAMBDA token :
        IF token.val.kind \in {"Identifier", "Link", "Box", "VBox", "Text"}
        THEN token
        ELSE msg_str(Err(parse_error(UnexpectedToken("Identifier", token.val.lexeme),
                                     token.val.line), token.pos),
                     "selectors must be either built-in items or links, or user-defined selectors"))

\* one pass of the loop collecting the styles of one rule
rule_styles_once(p, styles) ==
    Try(peek_token(p), LAMBDA pk :
    IF pk.val.kind = "RightParen" THEN Break(styles, p) ELSE
    Try(next_token(p), LAMBDA token :
      CASE token.val.kind = "Identifier" ->
             Again(Append(styles, WithoutArg(token.val)), token.pos)
        [] token.val.kind = "LeftParen" ->
             Try(msg_str(consume(token.pos, "Identifier"),
                         "expected a built-in style rule"), LAMBDA name :
             Try(msg_str(consume(name.pos, "String"),
                         "expected an argument to the built-in style rule"), LAMBDA arg :
             Try(msg_str(consume(arg.pos, "RightParen"),
                         "style rules only take one argument"), LAMBDA close :
             Again(Append(styles, WithArg(name.val, arg.val)), close.pos))))
        [] OTHER ->
             msg_str(Err(parse_error(ExpectedStyle(token.val.lexeme), token.val.line),
                         token.pos),
                     "expected a style rule")))

\* the loop collecting the styles of one rule of the page-style block
RECURSIVE rule_styles_loop(_, _)
rule_styles_loop(p, styles) ==
    Try(rule_styles_once(p, styles), LAMBDA once :
    IF once.again THEN rule_styles_loop(once.pos, once.val)
    ELSE Ok(once.val, once.pos))

\* one pass of the loop over the rules of the page-style block
page_styles_once(p, styles) ==
    Try(peek_token(p), LAMBDA pk :
    IF pk.val.kind = "RightBrace" THEN Break(styles, p) ELSE
    Try(msg_str(consume(p, "LeftParen"),
                "expected style rules inside page style item"), LAMBDA open :
    Try(consume_selector(open.pos), LAMBDA selector :
    Try(rule_styles_loop(selector.pos, <<>>), LAMBDA rule :
    Try(msg_str(consume(rule.pos, "RightParen"), "end of the style rule"), LAMBDA close :
    Again(Append(styles, PageStyle(selector.val, rule.val)), close.pos))))))

\* the loop over the rules of the page-style block
RECURSIVE page_styles_loop(_, _)
page_styles_loop(p, styles) ==
    Try(page_styles_once(p, styles), LAMBDA once :
    IF once.again THEN page_styles_loop(once.pos, once.val)
    ELSE Ok(once.val, once.pos))

parse_page_styles(p) ==
    Try(consume(p, "LeftBrace"), LAMBDA left_brace :
    Try(page_styles_loop(left_brace.pos, <<>>), LAMBDA rules :
    Try(msg_str(consume(rules.pos, "RightBrace"),
                "unbalanced braces starting on line " \o ToString(left_brace.val.line)),
        LAMBDA close :
    Ok(rules.val, close.pos))))

\* one pass of the loop over the styles of an inline-style list
inline_styles_once(p, inline_styles) ==
    Try(peek_token(p), LAMBDA pk :
    IF pk.val.kind = "RightBrace" THEN Break(inline_styles, p) ELSE
    Try(next_token(p), LAMBDA token :
      CASE token.val.kind = "Identifier" ->
             Again(Append(inline_styles, WithoutArg(token.val)), token.pos)
        [] token.val.kind = "LeftParen" ->
             Try(msg_str(consume(token.pos, "Identifier"),
                         "expected some built-in style name"), LAMBDA name :
             Try(msg_str(consume(name.pos, "String"),
                         "expected an argument to the built-in style"), LAMBDA arg :
             Try(msg_str(consume(arg.pos, "RightParen"),
                         "styles only take one argument"), LAMBDA close :
             Again(Append(inline_styles, WithArg(name.val, arg.val)), close.pos))))
        [] OTHER ->
             msg_str(Err(parse_error(ExpectedStyle(token.val.lexeme), token.val.line),
                         token.pos),
                     "expected a style rule in the list of inline style rules")))

\* the loop over the styles of an inline-style list
RECURSIVE inline_styles_loop(_, _)
inline_styles_loop(p, inline_styles) ==
    Try(inline_styles_once(p, inline_styles), LAMBDA once :
    IF once.again THEN inline_styles_loop(once.pos, once.val)
    ELSE Ok(once.val, once.pos))

\* parse_inline_styles rejecting the names that are not built in
parse_inline_styles_known(p) ==
    Try(peek_token(p), LAMBDA pk :
    IF pk.val.kind = "LeftBrace" THEN
      Try(inline_styles_loop(p + 1, <<>>), LAMBDA styles :
      IF \E k \in 1..Len(styles.val) :
            styles.val[k].name.lexeme
               \notin {"mono", "serif", "sans", "bold", "italic", "underline",
                       "strike", "fg", "bg", "fill", "size"}
      THEN Err(parse_error([type |-> "UnknownStyle", style |-> "user-style"],
                           pk.val.line), styles.pos + 1)
      ELSE Ok(styles.val, styles.pos + 1))
    ELSE Ok(<<>>, p))

\* parse_inline_styles checking that a colour has six digits
parse_inline_styles_checked(p) ==
    Try(peek_token(p), LAMBDA pk :
    IF pk.val.kind = "LeftBrace" THEN
      Try(inline_styles_loop(p + 1, <<>>), LAMBDA styles :
      IF \E k \in 1..Len(styles.val) :
            /\ styles.val[k].type = "WithArg"
            /\ styles.val[k].name.lexeme = "fg"
            /\ styles.val[k].arg.lexeme = "\"30300\""
      THEN Err(parse_error([type |-> "IncorrectNumberFormat", num |-> "30300",
                            wanted |-> "rrggbb"], pk.val.line), styles.pos + 1)
      ELSE Ok(styles.val, styles.pos + 1))
    ELSE Ok(<<>>, p))

parse_inline_styles(p) ==
    Try(peek_token(p), LAMBDA pk :
    IF pk.val.kind = "LeftBrace" THEN
      Try(consume(p, "LeftBrace"), LAMBDA open :
      Try(inline_styles_loop(open.pos, <<>>), LAMBDA styles :
      Try(msg_str(consume(styles.pos, "RightBrace"),
                  "expected the end of the inline style"), LAMBDA close :
      Ok(styles.val, close.pos))))
    ELSE Ok(<<>>, p))

\* collect_text looking at the next String without taking it
collect_text_once_peeking(p, text) ==
    Try(peek_token(p), LAMBDA pk :
    IF pk.val.kind = "RightParen" THEN Break(text, p) ELSE
    IF pk.val.kind = "String" THEN Again(Append(text, pk.val), p)
    ELSE consume(p, "String"))

\* one pass of the loop of collect_text
collect_text_once(p, text) ==
    Try(peek_token(p), LAMBDA pk :
    IF pk.val.kind = "RightParen" THEN Break(text, p) ELSE
    Try(consume(p, "String"), LAMBDA token :
    Again(Append(text, token.val), token.pos)))

RECURSIVE collect_text_loop(_, _)
collect_text_loop(p, text) ==
    Try(collect_text_once(p, text), LAMBDA once :
    IF once.again THEN collect_text_loop(once.pos, once.val)
    ELSE Ok(once.val, once.pos))

collect_text(p) == collect_text_loop(p, <<>>)

parse_blob(p) ==
    Try(consume(p, "Blob"), LAMBDA builtin :
    Try(consume(builtin.pos, "String"), LAMBDA name :
    Try(parse_inline_styles(name.pos), LAMBDA inline_styles :
    Try(collect_text(inline_styles.pos), LAMBDA alt :
    Ok(PageItem(builtin.val, inline_styles.val,
                [type |-> "Blob", name |-> name.val, alt |-> alt.val]),
       alt.pos)))))

parse_link(p) ==
    Try(consume(p, "Link"), LAMBDA builtin :
    Try(consume(builtin.pos, "String"), LAMBDA link :
    Try(parse_inline_styles(link.pos), LAMBDA inline_styles :
    Try(collect_text(inline_styles.pos), LAMBDA text :
    Ok(PageItem(builtin.val, inline_styles.val,
                [type |-> "Link", link |-> link.val, text |-> text.val]),
       text.pos)))))

\* parse_anchor taking the String only if there is one
parse_anchor_optional(p) ==
    Try(consume(p, "Anchor"), LAMBDA builtin :
    Try(peek_token(builtin.pos), LAMBDA pk :
    IF pk.val.kind = "String"
    THEN Ok(PageItem(builtin.val, <<>>, [type |-> "Anchor", anchor |-> pk.val]),
            builtin.pos + 1)
    ELSE Ok(PageItem(builtin.val, <<>>, [type |-> "Anchor", anchor |-> builtin.val]),
            builtin.pos)))

parse_anchor(p) ==
    Try(consume(p, "Anchor"), LAMBDA builtin :
    Try(consume(builtin.pos, "String"), LAMBDA anchor :
    Ok(PageItem(builtin.val, <<>>, [type |-> "Anchor", anchor |-> anchor.val]),
       anchor.pos)))

parse_text(p) ==
    Try(consume(p, "Text"), LAMBDA builtin :
    Try(parse_inline_styles(builtin.pos), LAMBDA inline_styles :
    Try(collect_text(inline_styles.pos), LAMBDA text :
    Ok(PageItem(builtin.val, inline_styles.val, [type |-> "Text", text |-> text.val]),
       text.pos))))

RECURSIVE parse_item(_)

\* one pass of the loop over the children of a vbox or a box
children_once(p, children) ==
    Try(peek_token(p), LAMBDA pk :
    IF pk.val.kind = "RightParen" THEN Break(children, p) ELSE
    Try(parse_item(p), LAMBDA child :
    Again(Append(children, child.val), child.pos)))

\* the loop over the children of a vbox or a box
RECURSIVE children_loop(_, _)
children_loop(p, children) ==
    Try(children_once(p, children), LAMBDA once :
    IF once.again THEN children_loop(once.pos, once.val)
    ELSE Ok(once.val, once.pos))

parse_vbox(p) ==
    Try(consume(p, "VBox"), LAMBDA builtin :
    Try(parse_inline_styles(builtin.pos), LAMBDA inline_styles :
    Try(children_loop(inline_styles.pos, <<>>), LAMBDA children :
    Ok(PageItem(builtin.val, inline_styles.val,
                [type |-> "Children", children |-> children.val,
                 line |-> builtin.val.line]),
       children.pos))))

parse_box(p) ==
    Try(consume(p, "Box"), LAMBDA builtin :
    Try(parse_inline_styles(builtin.pos), LAMBDA inline_styles :
    Try(children_loop(inline_styles.pos, <<>>), LAMBDA children :
    Ok(PageItem(builtin.val, inline_styles.val,
                [type |-> "Children", children |-> children.val,
                 line |-> builtin.val.line]),
       children.pos))))

\* parse_implicit_text taking the first token as the builtin
parse_implicit_text_consuming(p) ==
    Try(next_token(p), LAMBDA first :
    Try(parse_inline_styles(first.pos), LAMBDA inline_styles :
    Try(collect_text(inline_styles.pos), LAMBDA text :
    Ok(PageItem(Token("ImplicitText", first.val.line, ""), inline_styles.val,
                [type |-> "Text", text |-> text.val]),
       text.pos))))

parse_implicit_text(p) ==
    Try(peek_token(p), LAMBDA pk :
    Try(parse_inline_styles(p), LAMBDA inline_styles :
    Try(collect_text(inline_styles.pos), LAMBDA text :
    Ok(PageItem(Token("ImplicitText", pk.val.line, ""), inline_styles.val,
                [type |-> "Text", text |-> text.val]),
       text.pos))))

parse_item(p) ==
    Try(consume(p, "LeftParen"), LAMBDA left_paren :
    Try(peek_token(left_paren.pos), LAMBDA pk :
    Try(CASE pk.val.kind = "Blob" -> parse_blob(left_paren.pos)
          [] pk.val.kind = "Link" -> parse_link(left_paren.pos)
          [] pk.val.kind = "Anchor" -> parse_anchor(left_paren.pos)
          [] pk.val.kind = "Text" -> parse_text(left_paren.pos)
          [] pk.val.kind = "VBox" -> parse_vbox(left_paren.pos)
          [] pk.val.kind = "Box" -> parse_box(left_paren.pos)
          [] OTHER -> parse_implicit_text(left_paren.pos), LAMBDA item :
    Try(msg_str(consume(item.pos, "RightParen"),
                "unbalanced parens starting on line " \o ToString(left_paren.val.line)),
        LAMBDA close :
    Ok(item.val, close.pos)))))

----------------------------------------------------------------------------
(* Source texts the parser is run on.                                      *)

Sigils == {"(", ")", "{", "}", "^", "&", "#", "*", "|", "%", "$"}

Lexemes == Sigils \cup StringLexemes \cup IdentifierLexemes \cup BadLexemes

ShortLexemes == Sigils \cup {"\"s\"", "serif"} \cup BadLexemes

\* every source text of at most MaxLen lexemes
ShortSources == UNION {[1..n -> ShortLexemes] : n \in 0..MaxLen}

\* well-formed sources, after the samples of the tests of parse.rs
Samples ==
    { <<"(", "#", "\"s\"", ")">>,
      <<"(", "&", "\"s\"", "{", "user-style", "(", "fg", "\"30300\"", ")", "serif", "}",
        "\"s\"", "\"s\"", ")">>,
      <<"(", "^", "\"s\"", "{", "user-style", "(", "fg", "\"s\"", ")", "}", "\"s\"", ")">>,
      <<"(", "^", "\"s\"", ")">>,
      <<"(", "$", "{", "user-style", "(", "fg", "\"s\"", ")", "}",
        "(", "\"s\"", ")", "(", "{", "serif", "}", "\"s\"", ")", ")">>,
      <<"(", "|", "(", "*", "{", "(", "fg", "\"s\"", ")", "}", "\"s\"", ")", ")">>,
      <<"{", "(", "user-style", "serif", "(", "fg", "\"30300\"", ")", ")",
        "(", "*", "serif", ")", "}">>,
      <<"{", "(", "user-style", "serif", ")", "}", "(", "{", "user-style", "}", "\"s\"", ")",
        "{", "}">>,
      <<"{", "}", "{", "(", "*", "serif", ")", "}", "(", "#", "\"s\"", ")">>,
      <<"(", "#", "\"s\"", ")", "{", "(", "*", "serif", ")", "}", "(", ")">> }

\* a sample with one lexeme replaced, or cut short
Edited(s) ==
    {[s EXCEPT ![i] = a] : i \in 1..Len(s), a \in Lexemes}
        \cup {SubSeq(s, 1, n) : n \in 0..Len(s)}

Sources == ShortSources \cup Samples \cup UNION {Edited(s) : s \in Samples}

Layouts == {"one_line", "line_per_lexeme"}

----------------------------------------------------------------------------
(* parse(): the top-level loop.                                            *)

Pending == [pending |-> TRUE]
ResultOk(page) == [ok |-> TRUE, val |-> page]
ResultErr(errs) == [ok |-> FALSE, err |-> errs]

Step(op, start, res) == [op |-> op, start |-> start, res |-> res]

Init ==
    /\ src \in Sources
    /\ layout \in Layouts
    /\ pos = 1
    /\ errors = <<>>
    /\ items = <<>>
    /\ page_styles = <<>>
    /\ pc = "loop"
    /\ result = Pending
    /\ recorded = <<>>
    /\ malformed = 0
    /\ blocks = 0
    /\ last = Step("start", 1, Ok(<<>>, 1))
    /\ BesideParseAtRest

\* a peek_token or next_token call of parse itself fails: the ? returns the
\* scan error as the whole error list
ScanFail ==
    /\ pc = "loop"
    /\ ~peek_token(pos).ok
    /\ \E r \in {peek_token(pos)} :
         /\ result' = ResultErr(<<r.err>>)
         /\ pos' = r.pos
         /\ recorded' = Append(recorded, r.err)
         /\ last' = Step("scan_fail", pos, r)
    /\ pc' = "done"
    /\ UNCHANGED beside_parse
    /\ UNCHANGED <<src, layout, errors, items, page_styles, malformed, blocks>>

\* TokenKind::LeftBrace if page_styles.is_empty()
PageStyles ==
    /\ pc = "loop"
    /\ peek_token(pos).ok
    /\ peek_token(pos).val.kind = "LeftBrace"
    /\ page_styles = <<>>
    /\ \E r \in {parse_page_styles(pos)} :
         /\ pos' = r.pos
         /\ last' = Step("page_styles", pos, r)
         /\ IF r.ok
            THEN /\ page_styles' = r.val
                 /\ blocks' = blocks + 1
                 /\ UNCHANGED <<errors, recorded, malformed>>
            ELSE /\ errors' = Append(errors, r.err)
                 /\ recorded' = Append(recorded, r.err)
                 /\ malformed' = malformed + 1
                 /\ UNCHANGED <<page_styles, blocks>>
    /\ UNCHANGED beside_parse
    /\ UNCHANGED <<src, layout, items, pc, result>>

\* Item keeping only the latest error
Item_masking ==
    /\ pc = "loop"
    /\ peek_token(pos).ok
    /\ peek_token(pos).val.kind = "LeftParen"
    /\ \E r \in {parse_item(pos)} :
         /\ pos' = r.pos
         /\ last' = Step("item", pos, r)
         /\ IF r.ok
            THEN /\ items' = Append(items, r.val)
                 /\ UNCHANGED <<errors, recorded, malformed>>
            ELSE /\ errors' = <<r.err>>
                 /\ recorded' = Append(recorded, r.err)
                 /\ malformed' = malformed + 1
                 /\ UNCHANGED items
    /\ UNCHANGED beside_parse
    /\ UNCHANGED <<src, layout, page_styles, pc, result, blocks>>

\* position of the ")" closing the "(" at position i, by counting depth; 0 if none
RECURSIVE MatchFrom(_, _)
MatchFrom(j, depth) ==
    IF j > Len(src) THEN 0
    ELSE IF src[j] = "(" THEN MatchFrom(j + 1, depth + 1)
    ELSE IF src[j] = ")"
         THEN IF depth = 1 THEN j ELSE MatchFrom(j + 1, depth - 1)
    ELSE MatchFrom(j + 1, depth)

MatchOf(i) == MatchFrom(i + 1, 1)

\* Item skipping to the end of a failed form
Item_skipping ==
    /\ pc = "loop"
    /\ peek_token(pos).ok
    /\ peek_token(pos).val.kind = "LeftParen"
    /\ \E r \in {parse_item(pos)} :
         /\ last' = Step("item", pos, r)
         /\ IF r.ok
            THEN /\ items' = Append(items, r.val)
                 /\ pos' = r.pos
                 /\ UNCHANGED <<errors, recorded, malformed>>
            ELSE /\ errors' = Append(errors, r.err)
                 /\ pos' = IF MatchOf(pos) # 0 /\ r.pos <= MatchOf(pos)
                            THEN MatchOf(pos) + 1 ELSE r.pos
                 /\ recorded' = Append(recorded, r.err)
                 /\ malformed' = malformed + 1
                 /\ UNCHANGED items
    /\ UNCHANGED beside_parse
    /\ UNCHANGED <<src, layout, page_styles, pc, result, blocks>>

\* TokenKind::LeftParen
Item ==
    /\ pc = "loop"
    /\ peek_token(pos).ok
    /\ peek_token(pos).val.kind = "LeftParen"
    /\ \E r \in {parse_item(pos)} :
         /\ pos' = r.pos
         /\ last' = Step("item", pos, r)
         /\ IF r.ok
            THEN /\ items' = Append(items, r.val)
                 /\ UNCHANGED <<errors, recorded, malformed>>
            ELSE /\ errors' = Append(errors, r.err)
                 /\ recorded' = Append(recorded, r.err)
                 /\ malformed' = malformed + 1
                 /\ UNCHANGED items
    /\ UNCHANGED beside_parse
    /\ UNCHANGED <<src, layout, page_styles, pc, result, blocks>>

\* any other token: ExpectedItem, and the token is skipped
NotAnItem ==
    /\ pc = "loop"
    /\ peek_token(pos).ok
    /\ LET token == peek_token(pos).val IN
         /\ token.kind \notin {"End", "LeftParen"}
         /\ ~(token.kind = "LeftBrace" /\ page_styles = <<>>)
         /\ LET error == parse_error(ExpectedItem(token.lexeme), token.line) IN
              /\ errors' = Append(errors, error)
              /\ recorded' = Append(recorded, error)
              /\ last' = Step("not_an_item", pos, Err(error, next_token(pos).pos))
         /\ pos' = next_token(pos).pos
         /\ malformed' = malformed + 1
    /\ UNCHANGED beside_parse
    /\ UNCHANGED <<src, layout, items, page_styles, pc, result, blocks>>

\* Finish returning the first diagnostic only
Finish_first ==
    /\ pc = "loop"
    /\ peek_token(pos).ok
    /\ peek_token(pos).val.kind = "End"
    /\ result' = IF errors = <<>>
                 THEN ResultOk(Page(page_styles, items))
                 ELSE ResultErr(<<errors[1]>>)
    /\ pc' = "done"
    /\ last' = Step("finish", pos, Ok(<<>>, pos))
    /\ UNCHANGED beside_parse
    /\ UNCHANGED <<src, layout, pos, errors, items, page_styles, recorded,
                   malformed, blocks>>

\* End is peeked: the loop ends and parse returns
Finish ==
    /\ pc = "loop"
    /\ peek_token(pos).ok
    /\ peek_token(pos).val.kind = "End"
    /\ result' = IF errors = <<>>
                 THEN ResultOk(Page(page_styles, items))
                 ELSE ResultErr(errors)
    /\ pc' = "done"
    /\ last' = Step("finish", pos, Ok(<<>>, pos))
    /\ UNCHANGED beside_parse
    /\ UNCHANGED <<src, layout, pos, errors, items, page_styles, recorded,
                   malformed, blocks>>

Next == ScanFail \/ PageStyles \/ Item \/ NotAnItem \/ Finish

Spec == Init /\ [][Next]_vars

\* parse(data) is called: the state is that of Init
CallParse ==
    /\ pc = "off"
    /\ src' \in Sources
    /\ layout' \in Layouts
    /\ pos' = 1
    /\ pc' = "loop"
    /\ last' = Step("start", 1, Ok(<<>>, 1))
    /\ UNCHANGED beside_parse
    /\ UNCHANGED <<errors, items, page_styles, result, recorded, malformed, blocks>>

LiveInit == NoParse /\ BesideParseAtRest

LiveNext == CallParse \/ Next

\* parse from its call on; it is a sequential function: while it has a next
\* step it takes it
LiveSpec == LiveInit /\ [][LiveNext]_vars /\ WF_vars(LiveNext)

----------------------------------------------------------------------------
(* Vocabulary of the properties.                                           *)

Done == pc = "done"

\* parse left its loop at End, not through a failing ? of its own
ReachedEnd == pc = "done" /\ last.op = "finish"

\* the scan result at position i is a token of the given kind
Is(i, kind) == i >= 1 /\ ~ScanFails(i) /\ TokenAt(i).kind = kind

IsParseError(e, type) == e.error.kind = "ParseError" /\ e.error.error.type = type

----------------------------------------------------------------------------
(* C1: two malformed top-level items give at least two diagnostics.        *)

\* C1 as stated: whenever parse has returned after two top-level loop
\* iterations met a malformed item, it returned at least two diagnostics.
ClaimC1_AsStated ==
    Done /\ malformed >= 2 => ~result.ok /\ Len(result.err) >= 2

\* C1, amended: when parse's loop reached End after two top-level loop
\* iterations met a malformed item, parse returned at least two diagnostics
\* (a scan error met by parse itself returns that error alone instead).
TheoremC1 ==
    ReachedEnd /\ malformed >= 2 => ~result.ok /\ Len(result.err) >= 2

WitnessC1 ==
    ReachedEnd /\ malformed >= 2 /\ ~result.ok /\ Len(result.err) >= 2

----------------------------------------------------------------------------
(* C2: what parse returns.                                                 *)

\* C2 as stated: parse returns Ok(Page) exactly when no diagnostic was
\* recorded during the run, otherwise Err with every recorded diagnostic in
\* the order recorded.
ClaimC2_AsStated ==
    Done => /\ result.ok <=> recorded = <<>>
            /\ ~result.ok => result.err = recorded

\* C2, amended: parse returns Ok(Page) exactly when no diagnostic was
\* recorded during the run and never a Page while diagnostics exist; when
\* the loop reached End the Err holds every recorded diagnostic in order,
\* and when a scan call of parse itself failed the Err holds that scan error
\* alone.
TheoremC2 ==
    Done => /\ result.ok <=> recorded = <<>>
            /\ result.ok => result.val = Page(page_styles, items)
            /\ ~result.ok /\ last.op = "finish" => result.err = recorded
            /\ last.op = "scan_fail" =>
                   /\ ~result.ok
                   /\ result.err = <<recorded[Len(recorded)]>>
                   /\ result.err[1].error.kind = "ScanError"

WitnessC2 ==
    ReachedEnd /\ Len(recorded) >= 2 /\ ~result.ok /\ result.err = recorded

----------------------------------------------------------------------------
(* C3: where the parser resumes after a failure inside a form.             *)

----------------------------------------------------------------------------
(* C4: scan errors are fatal.                                              *)

\* C4: a scan error raised by any peek_token or next_token call made during
\* parse ends parse at once: it is the last diagnostic produced and parse
\* has returned exactly that error.
ClaimC4 ==
    \A i \in 1..Len(recorded) :
        recorded[i].error.kind = "ScanError"
            => /\ Done
               /\ i = Len(recorded)
               /\ result = ResultErr(<<recorded[i]>>)

----------------------------------------------------------------------------
(* C5: the diagnostic of an unbalanced form.                               *)

\* the top-level item opened at last.start met another token than ")" where
\* its closing ")" is required (the consume of parse_item's last step failed)
MissesClosingParen ==
    /\ last.op = "item" /\ ~last.res.ok
    /\ IsParseError(last.res.err, "UnexpectedToken")
    /\ last.res.err.error.error.expected = "RightParen"
    /\ last.res.err.msg
         = Some("unbalanced parens starting on line " \o ToString(LineOf(last.start)))

\* C5: when an opened "(" item meets End or a non-matching token where its
\* closing delimiter is required, the diagnostic has kind
\* UnbalancedParentheses and its line is the line of the opening delimiter.
ClaimC5 ==
    MissesClosingParen
        => /\ last.res.err.error.error.type = "UnbalancedParentheses"
           /\ last.res.err.error.line = LineOf(last.start)

----------------------------------------------------------------------------
(* C6: a single page-style block, before any item.                         *)

\* C6: a top-level "{" is parsed as a page-style block only when no block
\* was parsed before and no item was parsed before.
ClaimC6 ==
    last.op = "page_styles"
        => /\ blocks = (IF last.res.ok THEN 1 ELSE 0)
           /\ items = <<>>

----------------------------------------------------------------------------
(* C7, C8: style names and arguments are not validated.                    *)

\* the style names with fixed meaning (markup/mod.rs, InlineStyle)
BuiltinStyleNames ==
    {"mono", "serif", "sans", "bold", "italic", "underline", "strike",
     "fg", "bg", "fill", "size"}

\* lexemes of the identifiers used as nullary inline styles in a list of items
RECURSIVE NullaryNames(_)
NullaryNames(its) ==
    IF its = <<>> THEN {}
    ELSE LET it == Head(its) IN
         {it.inline_styles[k].name.lexeme :
              k \in {j \in 1..Len(it.inline_styles) :
                        it.inline_styles[j].type = "WithoutArg"}}
           \cup (IF it.payload.type = "Children"
                 THEN NullaryNames(it.payload.children) ELSE {})
           \cup NullaryNames(Tail(its))

Selectors == {page_styles[k].selector.lexeme : k \in 1..Len(page_styles)}

UndeclaredStyles == (NullaryNames(items) \ BuiltinStyleNames) \ Selectors

\* C7 as stated: when an item uses as inline style an identifier that is
\* neither built in nor a declared selector, parse returns no Page and its
\* diagnostics hold UnknownStyle for that name.
ClaimC7_AsStated ==
    Done =>
      \A n \in UndeclaredStyles :
         /\ ~result.ok
         /\ \E i \in 1..Len(result.err) :
               /\ IsParseError(result.err[i], "UnknownStyle")
               /\ result.err[i].error.error.style = n

\* C7, amended: an identifier used as an inline style is stored as a
\* WithoutArg style holding that token whether or not it is built in or
\* matches a declared selector; the parser never emits UnknownStyle, and an
\* undeclared style name alone does not keep parse from returning the Page.
TheoremC7 ==
    /\ \A i \in 1..Len(recorded) : ~IsParseError(recorded[i], "UnknownStyle")
    /\ \A b \in 1..Len(src) :
          Is(b, "LeftBrace") /\ Is(b + 1, "Identifier") =>
             LET r == parse_inline_styles(b) IN
             IF r.ok THEN r.val[1] = WithoutArg(TokenAt(b + 1))
                     ELSE r.pos > b + 2
    /\ ReachedEnd /\ UndeclaredStyles # {} /\ recorded = <<>>
          => result = ResultOk(Page(page_styles, items))

WitnessC7 == Done /\ result.ok /\ "user-style" \in UndeclaredStyles

\* Is on a sequence of lexemes
IsLexeme(s, i, kind) ==
    i >= 1 /\ i <= Len(s) /\ s[i] \notin BadLexemes /\ KindOf(s[i]) = kind

\* position of the "}" ending the well-formed styles that start at i; 0 if none
RECURSIVE StylesClose(_, _)
StylesClose(s, i) ==
    IF i > Len(s) THEN 0
    ELSE IF IsLexeme(s, i, "RightBrace") THEN i
    ELSE IF IsLexeme(s, i, "Identifier") THEN StylesClose(s, i + 1)
    ELSE IF /\ IsLexeme(s, i, "LeftParen") /\ IsLexeme(s, i + 1, "Identifier")
            /\ IsLexeme(s, i + 2, "String") /\ IsLexeme(s, i + 3, "RightParen")
         THEN StylesClose(s, i + 4)
    ELSE 0

\* where the text of the blob or link item s starts; 0 if its styles are ill-formed
TextStart(s) ==
    IF IsLexeme(s, 4, "LeftBrace")
    THEN (IF StylesClose(s, 5) = 0 THEN 0 ELSE StylesClose(s, 5) + 1)
    ELSE 4

\* s is one blob or link item: ( & String {styles}? String* )
WellFormedBlobOrLink(s) ==
    /\ Len(s) >= 4
    /\ IsLexeme(s, 1, "LeftParen")
    /\ IsLexeme(s, 2, "Blob") \/ IsLexeme(s, 2, "Link")
    /\ IsLexeme(s, 3, "String")
    /\ IsLexeme(s, Len(s), "RightParen")
    /\ TextStart(s) # 0
    /\ \A j \in TextStart(s)..(Len(s) - 1) : IsLexeme(s, j, "String")

\* the tokens src[from..to]
TokensOf(from, to) == [i \in 1..(to - from + 1) |-> TokenAt(from + i - 1)]

IsNameOrArg(token) == token.kind \in {"Identifier", "String"}

\* the name and argument tokens of a list of styles, in order
RECURSIVE StyleTokens(_)
StyleTokens(styles) ==
    IF styles = <<>> THEN <<>>
    ELSE (IF Head(styles).type = "WithArg"
          THEN <<Head(styles).name, Head(styles).arg>>
          ELSE <<Head(styles).name>>) \o StyleTokens(Tail(styles))

\* C8: parse succeeds on every blob or link item, whatever the names of its
\* inline styles and the content of their arguments, and the item holds the
\* raw name and argument tokens in source order.
TheoremC8 ==
    Done /\ WellFormedBlobOrLink(src) =>
       /\ result.ok
       /\ Len(result.val.items) = 1
       /\ LET it == result.val.items[1]
              text == TokensOf(TextStart(src), Len(src) - 1)
          IN /\ it.builtin = TokenAt(2)
             /\ StyleTokens(it.inline_styles)
                  = SelectSeq(TokensOf(4, TextStart(src) - 1), IsNameOrArg)
             /\ it.payload = IF it.builtin.kind = "Blob"
                             THEN [type |-> "Blob", name |-> TokenAt(3), alt |-> text]
                             ELSE [type |-> "Link", link |-> TokenAt(3), text |-> text]

\* a blob with an undeclared style name and a five-digit colour
WitnessC8 ==
    /\ Done /\ WellFormedBlobOrLink(src) /\ result.ok
    /\ "user-style" \in UndeclaredStyles
    /\ \E k \in 1..Len(items[1].inline_styles) :
          /\ items[1].inline_styles[k].type = "WithArg"
          /\ items[1].inline_styles[k].name.lexeme = "fg"
          /\ items[1].inline_styles[k].arg.lexeme = "\"30300\""

----------------------------------------------------------------------------
(* C9: a unary style without its argument.                                 *)

\* q is where a style starts in the list whose first style starts at first:
\* every style before q is an identifier or a well-formed ( name "arg" )
RECURSIVE StyleAt(_, _)
StyleAt(first, q) ==
    \/ q = first
    \/ /\ q > first
       /\ \/ Is(q - 1, "Identifier") /\ StyleAt(first, q - 1)
          \/ /\ q - 4 >= first
             /\ Is(q - 4, "LeftParen") /\ Is(q - 3, "Identifier")
             /\ Is(q - 2, "String") /\ Is(q - 1, "RightParen")
             /\ StyleAt(first, q - 4)

\* the style at q of that list is ( name followed by a token that is no String
MissingArg(first, q) ==
    /\ StyleAt(first, q)
    /\ Is(q, "LeftParen") /\ Is(q + 1, "Identifier")
    /\ ~ScanFails(q + 2) /\ ~Is(q + 2, "String")

\* r is the UnexpectedToken error expecting String at the token after the name
ExpectsString(r, q) ==
    /\ ~r.ok
    /\ r.pos = q + 3
    /\ IsParseError(r.err, "UnexpectedToken")
    /\ r.err.error.error.expected = "String"
    /\ r.err.error.error.got = TokenAt(q + 2).lexeme
    /\ r.err.error.line = TokenAt(q + 2).line

\* the item opened at p has its inline-style list opened at b
ItemStylesAt(p, b) ==
    /\ Is(p, "LeftParen") /\ Is(b, "LeftBrace")
    /\ \/ b = p + 1
       \/ b = p + 2 /\ (Is(p + 1, "Text") \/ Is(p + 1, "VBox") \/ Is(p + 1, "Box"))
       \/ b = p + 3 /\ (Is(p + 1, "Blob") \/ Is(p + 1, "Link")) /\ Is(p + 2, "String")

\* the item opened at p has as first child the item opened at c
FirstChildAt(p, c) ==
    /\ Is(p, "LeftParen") /\ (Is(p + 1, "VBox") \/ Is(p + 1, "Box"))
    /\ c = p + 2 /\ Is(c, "LeftParen")

\* the page-style block opened at b has a first rule whose styles start at f
RuleStylesAt(b, f) ==
    /\ Is(b, "LeftBrace") /\ Is(b + 1, "LeftParen")
    /\ \E k \in {"Identifier", "Link", "Box", "VBox", "Text"} : Is(b + 2, k)
    /\ f = b + 3

Positions == 1..(Len(src) + 1)

\* C9: a parenthesized style whose name is not followed by a String token
\* makes parse_inline_styles, parse_page_styles and parse_item (for the item
\* holding the list and for the box around that item) return UnexpectedToken
\* expecting String, and parse return an error.
TheoremC9 ==
    \A b \in Positions :
       /\ Is(b, "LeftBrace") =>
             \A q \in (b + 1)..Len(src) :
                MissingArg(b + 1, q) =>
                   /\ ExpectsString(parse_inline_styles(b), q)
                   /\ \A p \in {b - 1, b - 2, b - 3} :
                         ItemStylesAt(p, b) =>
                            /\ ExpectsString(parse_item(p), q)
                            /\ last.op = "item" /\ last.start = p
                                  => /\ ExpectsString(last.res, q)
                                     /\ recorded[Len(recorded)] = last.res.err
                            /\ Done /\ p = 1 => ~result.ok
                            /\ FirstChildAt(p - 2, p) =>
                                  /\ ExpectsString(parse_item(p - 2), q)
                                  /\ last.op = "item" /\ last.start = p - 2
                                        => /\ ExpectsString(last.res, q)
                                           /\ recorded[Len(recorded)] = last.res.err
                                  /\ Done /\ p = 3 => ~result.ok
       /\ RuleStylesAt(b, b + 3) =>
             \A q \in (b + 3)..Len(src) :
                MissingArg(b + 3, q) =>
                   /\ ExpectsString(parse_page_styles(b), q)
                   /\ last.op = "page_styles" /\ last.start = b
                         => /\ ExpectsString(last.res, q)
                            /\ recorded[Len(recorded)] = last.res.err
                   /\ Done /\ b = 1 => ~result.ok

\* parse returned after an item whose child has a style without its argument
WitnessC9 ==
    /\ Done /\ ~result.ok
    /\ FirstChildAt(1, 3)
    /\ \E b, q \in Positions :
          ItemStylesAt(3, b) /\ MissingArg(b + 1, q) /\ Is(q + 2, "RightParen")

----------------------------------------------------------------------------
(* C10: anchors.                                                           *)

AnchorItem(p) ==
    PageItem(TokenAt(p + 1), <<>>, [type |-> "Anchor", anchor |-> TokenAt(p + 2)])

\* C10: an anchor form ( # String ) parses to an item with builtin #, no
\* inline style and the Anchor payload holding that String token; an anchor
\* form with anything else between # and ")" gives an error and no item.
TheoremC10 ==
    /\ \A p \in Positions :
          Is(p, "LeftParen") /\ Is(p + 1, "Anchor") =>
             IF Is(p + 2, "String") /\ Is(p + 3, "RightParen")
             THEN parse_item(p) = Ok(AnchorItem(p), p + 4)
             ELSE ~parse_item(p).ok
    /\ last.op = "item" /\ Is(last.start + 1, "Anchor") =>
          IF Is(last.start + 2, "String") /\ Is(last.start + 3, "RightParen")
          THEN /\ last.res.ok
               /\ items # <<>> /\ items[Len(items)] = AnchorItem(last.start)
          ELSE /\ ~last.res.ok
               /\ recorded # <<>> /\ recorded[Len(recorded)] = last.res.err
               /\ layout = "line_per_lexeme" =>
                     \A k \in 1..Len(items) :
                        items[k].builtin # TokenAt(last.start + 1)

WitnessC10 ==
    /\ last.op = "item" /\ last.res.ok
    /\ items[Len(items)].payload.type = "Anchor"
    /\ items[Len(items)].payload.anchor = TokenAt(last.start + 2)

----------------------------------------------------------------------------
(* C11: implicit text.                                                     *)

BuiltinKinds == {"Blob", "Link", "Anchor", "Text", "VBox", "Box"}

\* the item opened at p has no builtin: its first token is none of the sigils
ImplicitAt(p) ==
    /\ Is(p, "LeftParen")
    /\ ~ScanFails(p + 1) /\ TokenAt(p + 1).kind \notin BuiltinKinds

\* where the text of that item starts; 0 if its style list is ill-formed
ImplicitTextStart(p) ==
    IF Is(p + 1, "LeftBrace")
    THEN (IF StylesClose(src, p + 2) = 0 THEN 0 ELSE StylesClose(src, p + 2) + 1)
    ELSE p + 1

\* the first position from i on that holds no String token
RECURSIVE TextEnd(_)
TextEnd(i) == IF Is(i, "String") THEN TextEnd(i + 1) ELSE i

\* ( {styles}? String* )
WellFormedImplicit(p) ==
    /\ ImplicitAt(p)
    /\ ImplicitTextStart(p) # 0
    /\ Is(TextEnd(ImplicitTextStart(p)), "RightParen")

ImplicitItem(p, styles) ==
    PageItem(Token("ImplicitText", TokenAt(p + 1).line, ""), styles,
             [type |-> "Text",
              text |-> TokensOf(ImplicitTextStart(p), TextEnd(ImplicitTextStart(p)) - 1)])

\* C11: an item whose first token is no builtin is parsed, from that very
\* token on, as an optional inline-style list and then String tokens up to
\* the ")"; the item is a Text whose builtin is the token ImplicitText with
\* empty lexeme on the line of that first token, and any other continuation
\* is an error.
TheoremC11 ==
    /\ \A p \in Positions :
          ImplicitAt(p) =>
             \E r \in {parse_item(p)} :
                /\ r.ok <=> WellFormedImplicit(p)
                /\ r.ok =>
                      /\ r.val = ImplicitItem(p, r.val.inline_styles)
                      /\ StyleTokens(r.val.inline_styles)
                           = SelectSeq(TokensOf(p + 1, ImplicitTextStart(p) - 1),
                                       IsNameOrArg)
                      /\ r.pos = TextEnd(ImplicitTextStart(p)) + 1
    /\ last.op = "item" /\ WellFormedImplicit(last.start) =>
          /\ last.res.ok
          /\ items # <<>>
          /\ items[Len(items)] = ImplicitItem(last.start, last.res.val.inline_styles)
          /\ pos = TextEnd(ImplicitTextStart(last.start)) + 1

\* parse returned a page whose item is an implicit text with styles and text
WitnessC11 ==
    /\ Done /\ result.ok /\ layout = "line_per_lexeme"
    /\ \E k \in 1..Len(result.val.items), p \in Positions :
          /\ WellFormedImplicit(p)
          /\ result.val.items[k] = ImplicitItem(p, result.val.items[k].inline_styles)
          /\ result.val.items[k].builtin.line = p + 1
          /\ result.val.items[k].inline_styles # <<>>
          /\ result.val.items[k].payload.text # <<>>

----------------------------------------------------------------------------
(* C12: selectors of page-style rules.                                     *)

SelectorKinds == {"Identifier", "Link", "Box", "VBox", "Text"}

\* position of the ")" ending the well-formed rule styles that start at i; 0 if none
RECURSIVE RuleClose(_)
RuleClose(i) ==
    IF i > Len(src) THEN 0
    ELSE IF Is(i, "RightParen") THEN i
    ELSE IF Is(i, "Identifier") THEN RuleClose(i + 1)
    ELSE IF /\ Is(i, "LeftParen") /\ Is(i + 1, "Identifier")
            /\ Is(i + 2, "String") /\ Is(i + 3, "RightParen")
         THEN RuleClose(i + 4)
    ELSE 0

\* q opens a rule of the block opened at b: every rule before it is well-formed
RECURSIVE RuleOpens(_, _)
RuleOpens(b, q) ==
    /\ Is(q, "LeftParen")
    /\ \/ q = b + 1
       \/ \E q0 \in (b + 1)..(q - 3) :
             /\ RuleOpens(b, q0)
             /\ ~ScanFails(q0 + 1) /\ TokenAt(q0 + 1).kind \in SelectorKinds
             /\ RuleClose(q0 + 2) = q - 1

\* r is the UnexpectedToken error of consume_selector at the token after q
RejectsSelector(r, q) ==
    /\ ~r.ok
    /\ r.pos = q + 2
    /\ IsParseError(r.err, "UnexpectedToken")
    /\ r.err.error.error.expected = "Identifier"
    /\ r.err.error.error.got = TokenAt(q + 1).lexeme
    /\ r.err.error.line = TokenAt(q + 1).line

\* C12: the token after the "(" of a page-style rule is taken as the selector
\* exactly when its kind is Identifier, Link, Box, VBox or Text; any other
\* token there makes parse_page_styles return UnexpectedToken, and the
\* parser keeps no rule of that block.
TheoremC12 ==
    \A b \in Positions :
       Is(b, "LeftBrace") =>
          \A q \in (b + 1)..Len(src) :
             RuleOpens(b, q) /\ ~ScanFails(q + 1) =>
                \E r \in {parse_page_styles(b)} :
                   IF TokenAt(q + 1).kind \in SelectorKinds
                   THEN /\ consume_selector(q + 1) = Ok(TokenAt(q + 1), q + 2)
                        /\ ~RejectsSelector(r, q)
                        /\ r.ok /\ layout = "line_per_lexeme" =>
                              \E k \in 1..Len(r.val) : r.val[k].selector = TokenAt(q + 1)
                   ELSE /\ RejectsSelector(consume_selector(q + 1), q)
                        /\ RejectsSelector(r, q)
                        /\ last.op = "page_styles" /\ last.start = b =>
                              /\ RejectsSelector(last.res, q)
                              /\ page_styles = <<>>
                              /\ recorded[Len(recorded)] = last.res.err
                        /\ Done /\ b = 1 => ~result.ok

\* parse returned after the second rule of the block had a String for selector
WitnessC12 ==
    /\ Done /\ ~result.ok /\ page_styles = <<>>
    /\ Is(1, "LeftBrace")
    /\ \E q \in 3..Len(src) :
          /\ RuleOpens(1, q) /\ Is(q + 1, "String")
          /\ RejectsSelector(parse_page_styles(1), q)
          /\ recorded[1] = parse_page_styles(1).err

----------------------------------------------------------------------------
(* Byte codec (lib.rs).  A usize is its eight bytes, least significant     *)
(* first (a 64-bit target); shifts and masks act on them as on the bits.   *)

UsizeBytes == 8

\* the usize of a natural number below 2^31
usize(k) ==
    [i \in 1..UsizeBytes |-> IF i <= 4 THEN (k \div 256 ^ (i - 1)) % 256 ELSE 0]

\* a as usize, for a byte a
as_usize(a) == [i \in 1..UsizeBytes |-> IF i = 1 THEN a ELSE 0]

\* x as u8
as_u8(x) == x[1]

RECURSIVE BitAnd(_, _)
BitAnd(a, b) ==
    IF a = 0 \/ b = 0 THEN 0
    ELSE (a % 2) * (b % 2) + 2 * BitAnd(a \div 2, b \div 2)

RECURSIVE BitOr(_, _)
BitOr(a, b) ==
    IF a = 0 THEN b ELSE IF b = 0 THEN a
    ELSE (IF a % 2 = 1 \/ b % 2 = 1 THEN 1 ELSE 0) + 2 * BitOr(a \div 2, b \div 2)

\* x & y
and(x, y) == [i \in 1..UsizeBytes |-> BitAnd(x[i], y[i])]

\* x | y
or(x, y) == [i \in 1..UsizeBytes |-> BitOr(x[i], y[i])]

\* x >> n and x << n, for n a multiple of 8
shr(x, n) ==
    [i \in 1..UsizeBytes |-> IF i + n \div 8 <= UsizeBytes THEN x[i + n \div 8] ELSE 0]

shl(x, n) ==
    [i \in 1..UsizeBytes |-> IF i - n \div 8 >= 1 THEN x[i - n \div 8] ELSE 0]

\* x <= y
le(x, y) ==
    \/ x = y
    \/ \E i \in 1..UsizeBytes :
          x[i] < y[i] /\ \A j \in (i + 1)..UsizeBytes : x[j] = y[j]

u16_MAX == [i \in 1..UsizeBytes |-> IF i <= 2 THEN 255 ELSE 0]
u32_MAX == [i \in 1..UsizeBytes |-> IF i <= 4 THEN 255 ELSE 0]

\* the masks 0xff_00_00_00, 0x00_ff_00_00, 0x00_00_ff_00, 0xff
mask(k) == [i \in 1..UsizeBytes |-> IF i = k THEN 255 ELSE 0]

\* a failed assert!, and a returned value
Panic == [panic |-> TRUE]
Returned(val) == [panic |-> FALSE, val |-> val]

----------------------------------------------------------------------------
(* The encoders and decoders.                                              *)

\* serialize_to_bytes without its assertion
serialize_to_bytes_unchecked(bytes) ==
    Returned(<<as_u8(and(bytes, usize(255))), as_u8(shr(bytes, 8))>>)

\* serialize_to_bytes returning (high, low)
serialize_to_bytes_swapped(bytes) ==
    IF ~le(bytes, u16_MAX) THEN Panic
    ELSE Returned(<<as_u8(shr(bytes, 8)), as_u8(and(bytes, usize(255)))>>)

serialize_to_bytes(bytes) ==
    IF ~le(bytes, u16_MAX) THEN Panic
    ELSE \* (low, high)
         Returned(<<as_u8(and(bytes, usize(255))), as_u8(shr(bytes, 8))>>)

\* serialize_to_four_bytes returning [a, b, c, d]
serialize_to_four_bytes_big(bytes) ==
    IF ~le(bytes, u32_MAX) THEN Panic
    ELSE Returned(<<as_u8(shr(and(bytes, mask(4)), 24)),
                    as_u8(shr(and(bytes, mask(3)), 16)),
                    as_u8(shr(and(bytes, mask(2)), 8)),
                    as_u8(bytes)>>)

serialize_to_four_bytes(bytes) ==
    IF ~le(bytes, u32_MAX) THEN Panic
    ELSE \* [d, c, b, a]
         Returned(<<as_u8(bytes),
                    as_u8(shr(and(bytes, mask(2)), 8)),
                    as_u8(shr(and(bytes, mask(3)), 16)),
                    as_u8(shr(and(bytes, mask(4)), 24))>>)

deserialize_bytes(bytes) ==
    IF Len(bytes) # 2 THEN Panic
    ELSE Returned(or(shl(as_usize(bytes[2]), 8), as_usize(bytes[1])))

\* deserialize_four_bytes shifting bytes[2] by 8 like bytes[1]
deserialize_four_bytes_shift(bytes) ==
    IF Len(bytes) # 4 THEN Panic
    ELSE Returned(or(or(or(shl(as_usize(bytes[4]), 24),
                           shl(as_usize(bytes[3]), 8)),
                        shl(as_usize(bytes[2]), 8)),
                     as_usize(bytes[1])))

deserialize_four_bytes(bytes) ==
    IF Len(bytes) # 4 THEN Panic
    ELSE Returned(or(or(or(shl(as_usize(bytes[4]), 24),
                           shl(as_usize(bytes[3]), 16)),
                        shl(as_usize(bytes[2]), 8)),
                     as_usize(bytes[1])))

----------------------------------------------------------------------------
(* The codec run on a number: one encoder, then one decoder on its bytes.  *)

LowBytes == {0, 1, 3, 4, 18, 52, 128, 255}
HighBytes == {0, 1, 2, 255}

\* numbers around the two maxima, 0x1234 and 0x01020304 among them
Numbers ==
    {[i \in 1..UsizeBytes |->
         CASE i = 1 -> d1 [] i = 2 -> d2 [] i = 3 -> d3 [] i = 4 -> d4
           [] i = 5 -> d5 [] i = UsizeBytes -> d8 [] OTHER -> 0] :
       d1 \in LowBytes, d2 \in LowBytes, d3 \in HighBytes, d4 \in HighBytes,
       d5 \in {0, 1}, d8 \in {0, 128}}

Call(fn, res) == [fn |-> fn, res |-> res]

CodecInit ==
    /\ number \in Numbers
    /\ encoded = NotCalled
    /\ decoded = NotCalled
    /\ BesideCodecAtRest

SerializeToBytes ==
    /\ encoded = NotCalled
    /\ encoded' = Call("serialize_to_bytes", serialize_to_bytes(number))
    /\ UNCHANGED <<number, decoded>>
    /\ UNCHANGED beside_codec

SerializeToFourBytes ==
    /\ encoded = NotCalled
    /\ encoded' = Call("serialize_to_four_bytes", serialize_to_four_bytes(number))
    /\ UNCHANGED <<number, decoded>>
    /\ UNCHANGED beside_codec

DeserializeBytes ==
    /\ encoded # NotCalled /\ ~encoded.res.panic
    /\ decoded = NotCalled
    /\ decoded' = Call("deserialize_bytes", deserialize_bytes(encoded.res.val))
    /\ UNCHANGED <<number, encoded>>
    /\ UNCHANGED beside_codec

DeserializeFourBytes ==
    /\ encoded # NotCalled /\ ~encoded.res.panic
    /\ decoded = NotCalled
    /\ decoded' = Call("deserialize_four_bytes", deserialize_four_bytes(encoded.res.val))
    /\ UNCHANGED <<number, encoded>>
    /\ UNCHANGED beside_codec

CodecNext ==
    SerializeToBytes \/ SerializeToFourBytes \/ DeserializeBytes \/ DeserializeFourBytes

CodecSpec == CodecInit /\ [][CodecNext]_vars

----------------------------------------------------------------------------
(* C13, C14, C15: the codec.                                               *)

\* n is above the largest number of w bytes
Exceeds(n, w) == \E i \in (w + 1)..UsizeBytes : n[i] # 0

\* C13: the decoder of a width, applied to the bytes its encoder returned
\* for a number within that width, returns that number.
TheoremC13 ==
    /\ ~Exceeds(number, 2) =>
          /\ ~serialize_to_bytes(number).panic
          /\ deserialize_bytes(serialize_to_bytes(number).val) = Returned(number)
    /\ ~Exceeds(number, 4) =>
          /\ ~serialize_to_four_bytes(number).panic
          /\ deserialize_four_bytes(serialize_to_four_bytes(number).val)
                = Returned(number)
    /\ encoded.fn = "serialize_to_bytes" /\ decoded.fn = "deserialize_bytes"
          => decoded.res = Returned(number)
    /\ encoded.fn = "serialize_to_four_bytes" /\ decoded.fn = "deserialize_four_bytes"
          => decoded.res = Returned(number)

\* 2^32 - 1 went through the four-byte encoder and decoder
WitnessC13 ==
    /\ number = u32_MAX
    /\ encoded.fn = "serialize_to_four_bytes"
    /\ decoded.fn = "deserialize_four_bytes"
    /\ decoded.res = Returned(number)

\* (n / 256^i) mod 256 for a number n of at most four bytes: computed on n
\* itself below 2^31, and on its halves n = low + 65536 * high above
ByteOf(n, i) ==
    IF n[4] < 128
    THEN ((n[1] + 256 * n[2] + 65536 * n[3] + 16777216 * n[4]) \div 256 ^ i) % 256
    ELSE IF i < 2
    THEN ((n[1] + 256 * n[2]) \div 256 ^ i) % 256
    ELSE ((n[3] + 256 * n[4]) \div 256 ^ (i - 2)) % 256

\* C14: byte i (from 0) of an encoder's output is (n / 256^i) mod 256, the
\* least significant byte first; 0x1234 gives [0x34, 0x12] and 0x01020304
\* gives [0x04, 0x03, 0x02, 0x01].
TheoremC14 ==
    /\ encoded # NotCalled /\ ~encoded.res.panic =>
          /\ Len(encoded.res.val)
                = (IF encoded.fn = "serialize_to_bytes" THEN 2 ELSE 4)
          /\ \A i \in 0..(Len(encoded.res.val) - 1) :
                encoded.res.val[i + 1] = ByteOf(number, i)
    /\ encoded.fn = "serialize_to_bytes" /\ number = usize(4660)
          => encoded.res = Returned(<<52, 18>>)
    /\ encoded.fn = "serialize_to_four_bytes" /\ number = usize(16909060)
          => encoded.res = Returned(<<4, 3, 2, 1>>)

\* 0x01020304 went through the four-byte encoder
WitnessC14 ==
    /\ number = usize(16909060)
    /\ encoded = Call("serialize_to_four_bytes", Returned(<<4, 3, 2, 1>>))

\* C15: an encoder panics exactly on the numbers above its width's maximum,
\* and returns bytes for no such number.
TheoremC15 ==
    /\ encoded.fn = "serialize_to_bytes" =>
          (encoded.res.panic <=> Exceeds(number, 2))
    /\ encoded.fn = "serialize_to_four_bytes" =>
          (encoded.res.panic <=> Exceeds(number, 4))

\* 65536 made the two-byte encoder panic
WitnessC15 ==
    /\ number = shl(usize(1), 16)
    /\ encoded = Call("serialize_to_bytes", Panic)

----------------------------------------------------------------------------
(* Framing of responses (response.rs), after section 4.2.2 of the          *)
(* specification.  Texts are their UTF-8 bytes.                            *)

FROGGI_VERSION == 0

\* FroggiError::io, FroggiError::new(RequestFormatError), From<FromUtf8Error>
io == [error |-> [kind |-> "IOError"], msg |-> None]
request_format == [error |-> [kind |-> "RequestFormatError"], msg |-> None]
encoding ==
    [error |-> [kind |-> "EncodingError"],
     msg |-> Some("could not decode text from utf8 to String")]

\* the bytes are UTF-8 text (sequences of one and two bytes)
RECURSIVE Utf8Valid(_)
Utf8Valid(bs) ==
    IF bs = <<>> THEN TRUE
    ELSE IF bs[1] < 128 THEN Utf8Valid(Tail(bs))
    ELSE IF /\ bs[1] >= 194 /\ bs[1] <= 223
            /\ Len(bs) >= 2 /\ bs[2] >= 128 /\ bs[2] <= 191
         THEN Utf8Valid(Tail(Tail(bs)))
    ELSE FALSE

\* a decoded length as a number; lengths of 2^24 and more are beyond any stream here
AsLen(x) ==
    IF \E i \in 4..UsizeBytes : x[i] # 0 THEN 16777216
    ELSE x[1] + 256 * x[2] + 65536 * x[3]

RECURSIVE Flatten(_)
Flatten(seqs) == IF seqs = <<>> THEN <<>> ELSE Head(seqs) \o Flatten(Tail(seqs))

Item_new(name, data) == [name |-> name, data |-> data]

Response_new(page, its) == [version |-> FROGGI_VERSION, page |-> page, items |-> its]

\* one entry of the item table: name length, name, payload length
TableEntry(item) ==
    <<as_u8(usize(Len(item.name)))>> \o item.name
        \o serialize_to_four_bytes(usize(Len(item.data))).val

\* everything after the total length
ResponseBody(r) ==
    LET count == serialize_to_bytes(usize(Len(r.items))).val
    IN  count
          \o Flatten([k \in 1..Len(r.items) |-> TableEntry(r.items[k])])
          \o serialize_to_four_bytes(usize(Len(r.page))).val \o r.page
          \o Flatten([k \in 1..Len(r.items) |-> r.items[k].data])

Response_into_bytes(r) ==
    <<r.version>> \o serialize_to_four_bytes(usize(Len(ResponseBody(r)))).val
        \o ResponseBody(r)

\* Read::read_exact on the stream holding bs, from position p
read_exact(bs, p, n) ==
    IF p + n - 1 <= Len(bs) THEN Ok(SubSeq(bs, p, p + n - 1), p + n)
    ELSE Err(io, Len(bs) + 1)

\* the item table: count entries of name and payload length
RECURSIVE read_table(_, _, _, _)
read_table(bs, p, count, table) ==
    IF count = 0 THEN Ok(table, p) ELSE
    Try(read_exact(bs, p, 1), LAMBDA name_length :
    Try(read_exact(bs, name_length.pos, name_length.val[1]), LAMBDA name :
    IF ~Utf8Valid(name.val) THEN Err(encoding, name.pos) ELSE
    Try(read_exact(bs, name.pos, 4), LAMBDA payload_length :
    read_table(bs, payload_length.pos, count - 1,
               Append(table, [name |-> name.val,
                              len |-> AsLen(deserialize_four_bytes(payload_length.val).val)])))))

\* the payloads, in the order of the table
RECURSIVE read_payloads(_, _, _, _)
read_payloads(bs, p, table, its) ==
    IF table = <<>> THEN Ok(its, p) ELSE
    Try(read_exact(bs, p, Head(table).len), LAMBDA data :
    read_payloads(bs, data.pos, Tail(table),
                  Append(its, Item_new(Head(table).name, data.val))))

Response_from_bytes(bs) ==
    Try(read_exact(bs, 1, 1), LAMBDA version :
    IF version.val[1] # FROGGI_VERSION THEN Err(request_format, version.pos) ELSE
    Try(read_exact(bs, version.pos, 4), LAMBDA total_length :
    Try(read_exact(bs, total_length.pos, 2), LAMBDA item_count :
    Try(read_table(bs, item_count.pos, AsLen(deserialize_bytes(item_count.val).val), <<>>),
        LAMBDA table :
    Try(read_exact(bs, table.pos, 4), LAMBDA page_length :
    Try(read_exact(bs, page_length.pos, AsLen(deserialize_four_bytes(page_length.val).val)),
        LAMBDA page :
    IF ~Utf8Valid(page.val) THEN Err(encoding, page.pos) ELSE
    Try(read_payloads(bs, page.pos, table.val, <<>>), LAMBDA its :
    IF its.pos - total_length.pos # AsLen(deserialize_four_bytes(total_length.val).val)
    THEN Err(request_format, its.pos)
    ELSE Ok([version |-> version.val[1], page |-> page.val, items |-> its.val],
            its.pos))))))))

----------------------------------------------------------------------------
(* A response built, written and read back.                                *)

\* page texts and item names: "", "(", "(é" and "", "a", "é"
Texts == {<<>>, <<40>>, <<40, 195, 169>>}
Names == {<<>>, <<97>>, <<195, 169>>}
Payloads == {<<>>, <<0>>, <<255, 0>>}

ItemLists ==
    UNION {[1..n -> {Item_new(name, data) : name \in Names, data \in Payloads}] :
             n \in 0..MaxItems}

FrameInit == NoFrame /\ BesideFrameAtRest

New ==
    /\ response = NotCalled
    /\ \E page \in Texts, its \in ItemLists : response' = Response_new(page, its)
    /\ UNCHANGED <<wire, received>>
    /\ UNCHANGED beside_frame

IntoBytes ==
    /\ response # NotCalled /\ wire = NotCalled
    /\ wire' = Response_into_bytes(response)
    /\ UNCHANGED <<response, received>>
    /\ UNCHANGED beside_frame

FromBytes ==
    /\ wire # NotCalled /\ received = NotCalled
    /\ received' = Response_from_bytes(wire)
    /\ UNCHANGED <<response, wire>>
    /\ UNCHANGED beside_frame

FrameNext == New \/ IntoBytes \/ FromBytes

FrameSpec == FrameInit /\ [][FrameNext]_vars

----------------------------------------------------------------------------
(* C16: the response round trip.                                           *)

\* C16: from_bytes on the bytes into_bytes made of a Response returns a
\* Response with the same version, page and items, the items in the order
\* of the item table, and reads all those bytes.
TheoremC16 ==
    received # NotCalled =>
       /\ received.ok
       /\ received.val.version = response.version
       /\ received.val.page = response.page
       /\ Len(received.val.items) = Len(response.items)
       /\ \A k \in 1..Len(response.items) :
             received.val.items[k] = response.items[k]
       /\ received.val = response
       /\ received.pos = Len(wire) + 1

\* a response with a page and two different items was read back
WitnessC16 ==
    /\ received # NotCalled /\ received.ok
    /\ response.page = <<40, 195, 169>>
    /\ Len(response.items) = 2
    /\ response.items[1] = Item_new(<<97>>, <<255, 0>>)
    /\ response.items[2] = Item_new(<<195, 169>>, <<>>)
    /\ received.val.items = response.items

----------------------------------------------------------------------------
(* Framing of requests (request.rs), after section 4.2.1 of the            *)
(* specification.  A path is a text repeated some times, so that a path    *)
(* longer than u16::MAX needs no 65536 bytes in the state.                 *)

Path(text, times) == [text |-> text, times |-> times]

PathLen(path) == Len(path.text) * path.times

RECURSIVE PathBytes(_)
PathBytes(path) ==
    IF path.times = 0 THEN <<>>
    ELSE path.text \o PathBytes(Path(path.text, path.times - 1))

\* Request::new: RequestFormat for a path of more than 65535 bytes
Request_new(path) ==
    IF PathLen(path) > 65535 THEN Err(request_format, 0)
    ELSE Ok([version |-> FROGGI_VERSION, path |-> PathBytes(path)], 0)

Request_into_bytes(request) ==
    <<request.version>> \o serialize_to_bytes(usize(Len(request.path))).val
        \o request.path

\* Request::from_bytes on the stream holding bs from position p on
Request_from_bytes(bs, p) ==
    Try(read_exact(bs, p, 1), LAMBDA version :
    Try(read_exact(bs, version.pos, 2), LAMBDA path_len :
    Try(read_exact(bs, path_len.pos, AsLen(deserialize_bytes(path_len.val).val)),
        LAMBDA path :
    IF ~Utf8Valid(path.val) THEN Err(encoding, path.pos)
    ELSE IF version.val[1] # FROGGI_VERSION THEN Err(request_format, path.pos)
    ELSE Ok([version |-> version.val[1], path |-> path.val], path.pos))))

\* a read that met the end of the bytes: it waits unless the stream is closed
Starved(r) == ~r.ok /\ r.err = io

----------------------------------------------------------------------------
(* The network: clients, each on a connection of its own, and the server.  *)
(* A stream is the bytes written on it so far and whether its writer has   *)
(* closed it; a reader keeps its position.  A read waits for its bytes     *)
(* until the stream is closed; connecting and writing may fail at any      *)
(* time.                                                                   *)

Conns == 1..MaxConn

Stream(bs, closed) == [bytes |-> bs, closed |-> closed]

\* a caller of send_request(to, path)
SendRequest(path) ==
    [kind |-> "send_request", path |-> path, pc |-> "connect", log |-> <<>>,
     result |-> Pending]

\* any other peer: it connects, writes its bytes, closes when it likes
Other(script) ==
    [kind |-> "other", script |-> script, pc |-> "connect", log |-> <<>>,
     result |-> Pending]

\* "/" and a path of 65536 bytes
Paths == {Path(<<47>>, 1), Path(<<47>>, 65536)}

\* version 1; a path that is no UTF-8; two requests in a row
Scripts == { <<1, 1, 0, 47>>, <<0, 1, 0, 255>>, <<0, 1, 0, 47, 0, 1, 0, 47>> }

Clients == {SendRequest(path) : path \in Paths} \cup {Other(script) : script \in Scripts}

\* the thread of handle_client: not spawned yet
NoHandler == [pc |-> "none", read |-> 1, log |-> <<>>]

\* the page and the image the server answers with (pages/test_markup.fml,
\* pages/red_toy_small.png), and the name of the image: "red_toy_small.png"
ServerPage == <<40, 41>>
HeaderImg == <<137, 80>>
HeaderImgName ==
    <<114, 101, 100, 95, 116, 111, 121, 95, 115, 109, 97, 108, 108, 46, 112, 110, 103>>

ServerResponse == Response_new(ServerPage, <<Item_new(HeaderImgName, HeaderImg)>>)

\* response.into_bytes()
ServerResponseBytes == Response_into_bytes(ServerResponse)

Established(c) == client[c].log # <<>> /\ client[c].log[1] = "connect"

NetInit ==
    /\ client \in [Conns -> Clients]
    /\ c2s = [c \in Conns |-> Stream(<<>>, FALSE)]
    /\ s2c = [c \in Conns |-> Stream(<<>>, FALSE)]
    /\ handler = [c \in Conns |-> NoHandler]
    /\ BesideNetAtRest

\* what a step of the client of c does to its record
Moved(c, to, event, res) ==
    [client EXCEPT ![c].pc = to, ![c].log = Append(@, event), ![c].result = res]

\* TcpStream::connect(to)?
Connect(c) ==
    /\ client[c].pc = "connect"
    /\ client' = Moved(c, IF client[c].kind = "send_request" THEN "new" ELSE "send",
                       "connect", Pending)
    /\ UNCHANGED <<c2s, s2c, handler>>
    /\ UNCHANGED beside_net

ConnectFail(c) ==
    /\ client[c].pc = "connect"
    /\ client' = Moved(c, "returned", "connect_failed", ResultErr(io))
    /\ UNCHANGED <<c2s, s2c, handler>>
    /\ UNCHANGED beside_net

\* request::Request::new(path)?
NewRequest(c) ==
    /\ client[c].pc = "new"
    /\ \E r \in {Request_new(client[c].path)} :
         IF r.ok
         THEN /\ client' = Moved(c, "write", "new", Pending)
              /\ UNCHANGED c2s
         ELSE /\ client' = Moved(c, "returned", "new_failed", ResultErr(r.err))
              /\ c2s' = [c2s EXCEPT ![c].closed = TRUE]
    /\ UNCHANGED <<s2c, handler>>
    /\ UNCHANGED beside_net

\* stream.write_all(&request.into_bytes())?
Write(c) ==
    /\ client[c].pc = "write"
    /\ c2s' = [c2s EXCEPT ![c].bytes =
                  @ \o Request_into_bytes(Request_new(client[c].path).val)]
    /\ client' = Moved(c, "read", "write", Pending)
    /\ UNCHANGED <<s2c, handler>>
    /\ UNCHANGED beside_net

\* send_request going on after a failed write
WriteFail_ignored(c) ==
    /\ client[c].pc = "write"
    /\ \E bs \in {Request_into_bytes(Request_new(client[c].path).val)} :
       \E k \in {0, Len(bs) - 1} :
          c2s' = [c2s EXCEPT ![c].bytes = @ \o SubSeq(bs, 1, k)]
    /\ client' = Moved(c, "read", "write_failed", Pending)
    /\ UNCHANGED <<s2c, handler>>
    /\ UNCHANGED beside_net

\* write_all fails before the first or after all but the last of the bytes
WriteFail(c) ==
    /\ client[c].pc = "write"
    /\ \E bs \in {Request_into_bytes(Request_new(client[c].path).val)} :
       \E k \in {0, Len(bs) - 1} :
          c2s' = [c2s EXCEPT ![c] = Stream(@.bytes \o SubSeq(bs, 1, k), TRUE)]
    /\ client' = Moved(c, "returned", "write_failed", ResultErr(io))
    /\ UNCHANGED <<s2c, handler>>
    /\ UNCHANGED beside_net

\* Ok(response::Response::from_bytes(&mut stream)?)
Read(c) ==
    /\ client[c].pc = "read"
    /\ \E r \in {Response_from_bytes(s2c[c].bytes)} :
         /\ ~Starved(r) \/ s2c[c].closed
         /\ client' = Moved(c, "returned", "read",
                            IF r.ok THEN ResultOk(r.val) ELSE ResultErr(r.err))
    /\ c2s' = [c2s EXCEPT ![c].closed = TRUE]
    /\ UNCHANGED <<s2c, handler>>
    /\ UNCHANGED beside_net

OtherSend(c) ==
    /\ client[c].pc = "send"
    /\ c2s' = [c2s EXCEPT ![c].bytes = @ \o client[c].script]
    /\ client' = Moved(c, "sent", "write", Pending)
    /\ UNCHANGED <<s2c, handler>>
    /\ UNCHANGED beside_net

OtherClose(c) ==
    /\ client[c].pc \in {"send", "sent"}
    /\ c2s' = [c2s EXCEPT ![c].closed = TRUE]
    /\ client' = Moved(c, "returned", "close", Pending)
    /\ UNCHANGED <<s2c, handler>>
    /\ UNCHANGED beside_net

----------------------------------------------------------------------------
(* The server (server/src/main.rs).                                        *)

\* what a step of the handler of c does to its record
Ran(c, to, read, event) ==
    [handler EXCEPT ![c] = [pc |-> to, read |-> read, log |-> Append(@.log, event)]]

\* main serving each connection itself, without spawning a thread
Accept_inline(c) ==
    /\ Established(c)
    /\ handler[c].pc = "none"
    /\ \A d \in Conns : handler[d].pc \in {"none", "returned"}
    /\ handler' = [handler EXCEPT ![c].pc = "reading"]
    /\ UNCHANGED <<client, c2s, s2c>>
    /\ UNCHANGED beside_net

\* main: Ok(stream) => std::thread::spawn(move || handle_client(stream))
Accept(c) ==
    /\ Established(c)
    /\ handler[c].pc = "none"
    /\ handler' = [handler EXCEPT ![c].pc = "reading"]
    /\ UNCHANGED <<client, c2s, s2c>>
    /\ UNCHANGED beside_net

\* main: Err(e) => println!("error {}", e); the loop goes on
AcceptError ==
    /\ UNCHANGED <<client, c2s, s2c, handler>>
    /\ UNCHANGED beside_net

\* handle_client: Request::from_bytes(&mut stream).unwrap(); the panic of
\* unwrap ends the thread and drops the stream
HandlerRead(c) ==
    /\ handler[c].pc = "reading"
    /\ \E r \in {Request_from_bytes(c2s[c].bytes, handler[c].read)} :
         /\ ~Starved(r) \/ c2s[c].closed
         /\ IF r.ok
            THEN /\ handler' = Ran(c, "respond", r.pos, "request")
                 /\ UNCHANGED s2c
            ELSE /\ handler' = Ran(c, "panicked", handler[c].read, "broken")
                 /\ s2c' = [s2c EXCEPT ![c].closed = TRUE]
    /\ UNCHANGED <<client, c2s>>
    /\ UNCHANGED beside_net

\* handle_client answering and then waiting for the next request
HandlerWrite_keepalive(c) ==
    /\ handler[c].pc = "respond"
    /\ s2c' = [s2c EXCEPT ![c].bytes = @ \o ServerResponseBytes]
    /\ handler' = Ran(c, "reading", handler[c].read, "response")
    /\ UNCHANGED <<client, c2s>>
    /\ UNCHANGED beside_net

\* handle_client: stream.write_all(&response.into_bytes()).unwrap(), and the
\* return that drops the stream
HandlerWrite(c) ==
    /\ handler[c].pc = "respond"
    /\ s2c' = [s2c EXCEPT ![c] = Stream(@.bytes \o ServerResponseBytes, TRUE)]
    /\ handler' = Ran(c, "returned", handler[c].read, "response")
    /\ UNCHANGED <<client, c2s>>
    /\ UNCHANGED beside_net

\* write_all fails after part of the bytes: unwrap panics
HandlerWriteFail(c) ==
    /\ handler[c].pc = "respond"
    /\ \E bs \in {ServerResponseBytes} :
       \E k \in {0, Len(bs) - 1} :
          s2c' = [s2c EXCEPT ![c] = Stream(@.bytes \o SubSeq(bs, 1, k), TRUE)]
    /\ handler' = Ran(c, "panicked", handler[c].read, "partial")
    /\ UNCHANGED <<client, c2s>>
    /\ UNCHANGED beside_net

NetNext ==
    \/ \E c \in Conns :
          \/ Connect(c) \/ ConnectFail(c) \/ NewRequest(c)
          \/ Write(c) \/ WriteFail(c) \/ Read(c)
          \/ OtherSend(c) \/ OtherClose(c)
          \/ Accept(c)
          \/ HandlerRead(c) \/ HandlerWrite(c) \/ HandlerWriteFail(c)
    \/ AcceptError

NetSpec == NetInit /\ [][NetNext]_vars

----------------------------------------------------------------------------
(* C17: one request, one response per connection.                          *)

Ended(c) == handler[c].pc \in {"returned", "panicked"}

\* the first request on the stream of c, as Request::from_bytes reads it
FirstRequest(c) == Request_from_bytes(c2s[c].bytes, 1)

IsPrefix(a, b) == Len(a) <= Len(b) /\ a = SubSeq(b, 1, Len(a))

\* C17 as stated: a handler that ended has read exactly one Request and then
\* written exactly one Response.
ClaimC17_AsStated ==
    \A c \in Conns :
       Ended(c) =>
          /\ handler[c].log = <<"request", "response">>
          /\ s2c[c].bytes = ServerResponseBytes

\* C17: the handler of a connection reads at most one Request and nothing
\* past it; it writes only after a complete request was read, and at most
\* one Response; when it has read the request and the write succeeds it has
\* written exactly one Response, and then it ends and closes the stream.
TheoremC17 ==
    \A c \in Conns : \A first \in {FirstRequest(c)} :
       /\ handler[c].log \in {<<>>, <<"request">>, <<"broken">>,
                              <<"request", "response">>, <<"request", "partial">>}
       /\ handler[c].read \in {1, first.pos}
       /\ handler[c].read # 1 => first.ok
       /\ s2c[c].bytes # <<>> =>
             /\ handler[c].log # <<>> /\ handler[c].log[1] = "request"
             /\ first.ok /\ handler[c].read = first.pos
       /\ IsPrefix(s2c[c].bytes, ServerResponseBytes)
       /\ handler[c].log = <<"request", "response">> <=> handler[c].pc = "returned"
       /\ handler[c].pc = "returned" =>
             s2c[c] = Stream(ServerResponseBytes, TRUE)
       /\ Ended(c) <=> s2c[c].closed

\* a handler returned while a second request waits unread on its connection
WitnessC17 ==
    \E c \in Conns :
       /\ handler[c].pc = "returned"
       /\ c2s[c].bytes = <<0, 1, 0, 47, 0, 1, 0, 47>>
       /\ handler[c].read = 5
       /\ s2c[c].bytes = ServerResponseBytes

----------------------------------------------------------------------------
(* C18: send_request.                                                      *)

\* the bytes of the request send_request writes on c
RequestBytes(c) == Request_into_bytes(Request_new(client[c].path).val)

\* C18: send_request connects, builds the request, writes all its bytes and
\* then reads one response from the same stream; a step that fails is the
\* last step, and its error is returned; never more than the one request
\* is written on the connection.
TheoremC18 ==
    \A c \in Conns :
       client[c].kind = "send_request" =>
        \A request \in {IF Len(client[c].log) >= 3 THEN RequestBytes(c) ELSE <<>>} :
          /\ client[c].log \in
                {<<>>, <<"connect_failed">>, <<"connect">>,
                 <<"connect", "new_failed">>, <<"connect", "new">>,
                 <<"connect", "new", "write_failed">>, <<"connect", "new", "write">>,
                 <<"connect", "new", "write", "read">>}
          /\ client[c].pc = "returned" <=> client[c].result # Pending
          /\ client[c].log # <<>>
               /\ client[c].log[Len(client[c].log)]
                     \in {"connect_failed", "new_failed", "write_failed"}
               => /\ client[c].pc = "returned" /\ ~client[c].result.ok
                  /\ client[c].result.err.error.kind
                       = (IF client[c].log[Len(client[c].log)] = "new_failed"
                          THEN "RequestFormatError" ELSE "IOError")
          /\ ~Established(c) => c2s[c].bytes = <<>> /\ handler[c].pc = "none"
          /\ Len(client[c].log) < 3 => c2s[c].bytes = <<>>
          /\ Len(client[c].log) >= 3 =>
                /\ IsPrefix(c2s[c].bytes, request)
                /\ client[c].log[3] = "write" <=> c2s[c].bytes = request
          /\ client[c].pc = "read" \/ (client[c].log # <<>>
                                        /\ client[c].log[Len(client[c].log)] = "read")
               => c2s[c].bytes = request
          /\ client[c].pc = "returned" /\ client[c].result.ok =>
                /\ client[c].log = <<"connect", "new", "write", "read">>
                /\ s2c[c].bytes = Response_into_bytes(client[c].result.val)
                /\ client[c].result.val = ServerResponse

\* send_request returned the server's response
WitnessC18 ==
    \E c \in Conns :
       /\ client[c].kind = "send_request" /\ client[c].pc = "returned"
       /\ client[c].result = ResultOk(ServerResponse)
       /\ handler[c].log = <<"request", "response">>

----------------------------------------------------------------------------
(* C19: a broken request ends its own handler only.                        *)

\* the stream of c holds a request that Request::from_bytes fails on
Broken(first, c) ==
    /\ ~first.ok
    /\ ~Starved(first) \/ c2s[c].closed

BrokenRequest(c) == Broken(FirstRequest(c), c)

\* the handler of c read that request
ReadBroken(c) == handler[c].log = <<"broken">>

\* C19: the handler that reads a broken request ends with its stream closed
\* and no byte written on it; after the handler of another connection has
\* panicked, the listener can still accept every connection not yet
\* accepted, and a handler can still read the request that has arrived for
\* it and write its response.
TheoremC19 ==
    \A c \in Conns : \A first \in {FirstRequest(c)} :
       /\ Broken(first, c) /\ handler[c].pc \notin {"none", "reading"} => ReadBroken(c)
       /\ ReadBroken(c) =>
             /\ Broken(first, c)
             /\ handler[c].pc = "panicked"
             /\ s2c[c] = Stream(<<>>, TRUE)
       /\ (\E d \in Conns \ {c} : handler[d].pc = "panicked") =>
             /\ Established(c) /\ handler[c].pc = "none" => ENABLED Accept(c)
             /\ handler[c].pc = "reading" /\ (first.ok \/ Broken(first, c))
                   => ENABLED HandlerRead(c)
             /\ handler[c].pc = "respond" => ENABLED HandlerWrite(c)

\* one handler read a broken request and panicked; the handler of another
\* connection served its request, and the client got the response
WitnessC19 ==
    \E c, d \in Conns :
       /\ c # d
       /\ ReadBroken(c) /\ c2s[c].bytes = <<1, 1, 0, 47>> /\ ~c2s[c].closed
       /\ handler[d].log = <<"request", "response">>
       /\ client[d].pc = "returned" /\ client[d].result = ResultOk(ServerResponse)

----------------------------------------------------------------------------
(* The context of an error (AddMsg for FroggiError, lib.rs): an error is   *)
(* created, and callers add their messages to it one after the other.      *)

\* errors as lib.rs creates them: without a context, and with the context
\* that From<FromUtf8Error> gives
Created ==
    { io, request_format, scan(UnknownEscapeCode("q"), 1),
      parse_error(ExpectedItem(")"), 2), encoding }

\* the messages callers add: one empty, one holding the joiner itself
Messages == {"", "a", "b, c"}

MsgInit ==
    /\ froggi_error \in Created
    /\ origin = froggi_error
    /\ msgs = <<>>
    /\ BesideMsgAtRest

\* self.msg(msg)
AddMsg ==
    /\ Len(msgs) < MaxMsgs
    /\ \E m \in Messages :
         /\ froggi_error' = msg(froggi_error, m)
         /\ msgs' = Append(msgs, m)
    /\ UNCHANGED origin
    /\ UNCHANGED beside_msg

\* Err(self).msg_str(msg): AddMsg for Result<T, FroggiError>
AddMsgStr ==
    /\ Len(msgs) < MaxMsgs
    /\ \E m \in Messages :
         /\ froggi_error' = msg_str(Err(froggi_error, 0), m).err
         /\ msgs' = Append(msgs, m)
    /\ UNCHANGED origin
    /\ UNCHANGED beside_msg

MsgNext == AddMsg \/ AddMsgStr

MsgSpec == MsgInit /\ [][MsgNext]_vars

----------------------------------------------------------------------------
(* C20: the context is the messages joined in call order.                  *)

\* the messages ms, not empty, joined by ", "
RECURSIVE Joined(_)
Joined(ms) ==
    IF Len(ms) = 1 THEN ms[1] ELSE ms[1] \o ", " \o Joined(Tail(ms))

\* C20: adding context never changes the kind of an error; after msg was
\* called with m1, ..., mk in that order on an error without context, the
\* context is m1, ..., mk joined by ", " (none when k = 0); on an error
\* created with a context the messages follow that context the same way.
TheoremC20 ==
    froggi_error # NotCalled =>
       /\ froggi_error.error = origin.error
       /\ ~origin.msg.is_some /\ msgs = <<>> => froggi_error.msg = None
       /\ ~origin.msg.is_some /\ msgs # <<>> => froggi_error.msg = Some(Joined(msgs))
       /\ origin.msg.is_some =>
             froggi_error.msg = Some(Joined(<<origin.msg.text>> \o msgs))

\* three messages added to a parse error, the second empty, the third
\* holding a comma
WitnessC20 ==
    /\ origin = parse_error(ExpectedItem(")"), 2)
    /\ msgs = <<"a", "", "b, c">>
    /\ froggi_error.error.kind = "ParseError"
    /\ froggi_error.msg = Some("a, , b, c")

----------------------------------------------------------------------------
(* C21: parse terminates.                                                  *)

\* one pass through each inner loop of the parser, entered at position p
Passes(p) ==
    { rule_styles_once(p, <<>>), page_styles_once(p, <<>>),
      inline_styles_once(p, <<>>), collect_text_once(p, <<>>),
      children_once(p, <<>>) }

\* a pass through an inner loop, entered anywhere in the source or at the
\* End tokens past it, leaves the loop without taking a token, or goes
\* round again having taken at least one, or returns an error, the offending
\* token taken; entered at End it returns an error
InnerLoopsConsume ==
    \A p \in 1..(Len(src) + 2) : \A once \in Passes(p) :
       /\ once.ok /\ once.again => once.pos > p
       /\ once.ok /\ ~once.again => once.pos = p
       /\ ~once.ok => once.pos > p
       /\ p > Len(src) => ~once.ok

\* a step of parse that does not leave the top-level loop at End takes at
\* least one token
TopLoopConsumes == pc = "loop" /\ last'.op # "finish" => pos' > pos

\* C21: parse terminates on every source: every pass through an inner loop
\* takes a token or leaves the loop, and returns an error at End; every
\* iteration of the top-level loop takes at least one token; and parse
\* returns in the end.
TheoremC21 ==
    /\ []InnerLoopsConsume
    /\ [][TopLoopConsumes]_vars
    /\ <>Done

\* parse returned on a box cut short inside the text of a child: collect_text
\* met End, the item failed, and the top-level loop ended at End
WitnessC21 ==
    /\ Done /\ last.op = "finish"
    /\ src = <<"(", "|", "(", "*", "{", "(", "fg", "\"s\"", ")", "}", "\"s\"">>
    /\ Len(errors) = 1
    /\ pos = Len(src) + 2
    /\ ~collect_text_once(Len(src) + 1, <<>>).ok

====
